---- MODULE Spec2Model ----
(***************************************************************************)
(* Semantic movie recommender: the record normalizer (parse_json_field,   *)
(* parse_cast), the document composer and point builder of both ingestion *)
(* variants, the batched upload of tempCodeRunnerFile.py and the          *)
(* session-guarded ingestion and query handling of app.py.                *)
(***************************************************************************)
EXTENDS Integers, Sequences, FiniteSets, TLC

VARIABLES
    \* --- normalizer called on one CSV cell
    data_str, max_items, fn, result,
    \* what the cell was written from: its shape and its JSON document
    origin,
    \* --- one raw record taken through the point building of a variant
    row, variant, search_text, point, fault,
    \* --- a run of tempCodeRunnerFile.py against the Qdrant server
    pc, collection, source, points, i, inflight, submitted, acked, failed,
    uploaded, run, first,
    \* --- the Streamlit process of app.py: the cached in-memory client,
    \* the sessions and the script run under way
    client, session_state, widgets, running, line, query, button, csv,
    app_points, calls, results, error, acked_by, created_twice

parseVars == <<data_str, max_items, fn, result, origin>>
recordVars == <<row, variant, search_text, point, fault>>
scriptVars == <<pc, collection, source, points, i, inflight, submitted, acked,
                failed, uploaded, run, first>>
appVars == <<client, session_state, widgets, running, line, query, button, csv,
             app_points, calls, results, error, acked_by, created_twice>>
vars == <<parseVars, recordVars, scriptVars, appVars>>

(***************************************************************************)
(* Bounds of the explored inputs.                                          *)
(***************************************************************************)
MaxLen == 3
MaxItems == 2
MaxRows == 250
MaxRuns == 2
MaxBatch == 3
MaxChunked == 8
MaxSessions == 2
MaxAppRows == 2

\* def parse_cast(data_str, max_items=10)
DefaultMaxItems == 10

(***************************************************************************)
(* Python values.  A value is a record tagged by its type.                 *)
(***************************************************************************)
NaN == [t |-> "nan"]
None == [t |-> "none"]
PyNum(n) == [t |-> "num", n |-> n]
PyStr(s) == [t |-> "str", s |-> s]
PyList(items) == [t |-> "list", items |-> items]
PyDict(d) == [t |-> "dict", d |-> d]

\* Outcome of evaluating an expression: a value, or a raised exception.
Ok(v) == [exc |-> "none", val |-> v]
Raise(e) == [exc |-> e, val |-> None]

(***************************************************************************)
(* JSON text, as the sequence of its tokens.                               *)
(***************************************************************************)
Punct(c) == [k |-> "punct", v |-> c]
TNull == [k |-> "null", v |-> "null"]
TNum(lit) == [k |-> "num", v |-> lit]
TStr(s) == [k |-> "str", v |-> s]

Text(toks) == [t |-> "text", toks |-> toks]

\* The number a numeric literal denotes, and the literal of a number.
NumberOf(lit) == CASE lit = "0" -> 0 [] lit = "7" -> 7 [] OTHER -> 1
LiteralOf(n) == CASE n = 0 -> "0" [] n = 7 -> "7" [] OTHER -> "1"

NoParse == [ok |-> FALSE, val |-> None, next |-> 0]
Parsed(v, p) == [ok |-> TRUE, val |-> v, next |-> p]

RECURSIVE ParseValue(_, _), ParseArray(_, _, _), ParseObject(_, _, _)

\* json.loads, the decoder: one value starting at token p.
ParseValue(toks, p) ==
    IF p > Len(toks) THEN NoParse
    ELSE LET tk == toks[p] IN
         CASE tk.k = "null" -> Parsed(None, p + 1)
           [] tk.k = "num" -> Parsed(PyNum(NumberOf(tk.v)), p + 1)
           [] tk.k = "str" -> Parsed(PyStr(tk.v), p + 1)
           [] tk = Punct("[") ->
                IF p + 1 <= Len(toks) /\ toks[p + 1] = Punct("]")
                THEN Parsed(PyList(<< >>), p + 2)
                ELSE ParseArray(toks, p + 1, << >>)
           [] tk = Punct("{") ->
                IF p + 1 <= Len(toks) /\ toks[p + 1] = Punct("}")
                THEN Parsed(PyDict(<< >>), p + 2)
                ELSE ParseObject(toks, p + 1, << >>)
           [] OTHER -> NoParse

ParseArray(toks, p, acc) ==
    LET r == ParseValue(toks, p) IN
    IF ~r.ok \/ r.next > Len(toks) THEN NoParse
    ELSE IF toks[r.next] = Punct(",")
         THEN ParseArray(toks, r.next + 1, Append(acc, r.val))
    ELSE IF toks[r.next] = Punct("]")
         THEN Parsed(PyList(Append(acc, r.val)), r.next + 1)
    ELSE NoParse

\* A repeated key keeps its last value, as a Python dict does.
ParseObject(toks, p, d) ==
    IF p + 1 > Len(toks) \/ toks[p].k # "str" \/ toks[p + 1] # Punct(":")
    THEN NoParse
    ELSE LET key == toks[p].v
             r == ParseValue(toks, p + 2)
             d2 == [x \in DOMAIN d \cup {key} |->
                       IF x = key THEN r.val ELSE d[x]]
         IN  IF ~r.ok \/ r.next > Len(toks) THEN NoParse
             ELSE IF toks[r.next] = Punct(",")
                  THEN ParseObject(toks, r.next + 1, d2)
             ELSE IF toks[r.next] = Punct("}")
                  THEN Parsed(PyDict(d2), r.next + 1)
             ELSE NoParse

\* json.loads(data_str): TypeError for a non-string (a NaN cell),
\* JSONDecodeError unless the whole text is one JSON value.
Loads(cell) ==
    IF cell.t # "text" THEN Raise("TypeError")
    ELSE LET r == ParseValue(cell.toks, 1) IN
         IF r.ok /\ r.next = Len(cell.toks) + 1
         THEN Ok(r.val)
         ELSE Raise("JSONDecodeError")

(***************************************************************************)
(* The Python operations the helpers apply to the decoded value.           *)
(***************************************************************************)
\* item[key] with a string key.
Subscript(item, key) ==
    IF item.t = "dict"
    THEN IF key \in DOMAIN item.d THEN Ok(item.d[key]) ELSE Raise("KeyError")
    ELSE Raise("TypeError")

\* iter(data): the elements of a list, the characters of a string, the keys
\* of a dict; a number or None is not iterable.
Iterate(data) ==
    CASE data.t = "list" -> Ok(data.items)
      [] data.t = "str" -> Ok([j \in 1..Len(data.s) |-> PyStr("c")])
      [] data.t = "dict" ->
           LET RECURSIVE Keys(_)
               Keys(S) == IF S = {} THEN << >>
                          ELSE LET x == CHOOSE y \in S : TRUE
                               IN  <<PyStr(x)>> \o Keys(S \ {x})
           IN  Ok(Keys(DOMAIN data.d))
      [] OTHER -> Raise("TypeError")

Min(a, b) == IF a < b THEN a ELSE b

\* data[:n]: a prefix of a list or of a string (of a string, the empty one
\* for n = 0 and a non-empty one otherwise); a dict takes no slice
\* (TypeError: unhashable slice; KeyError from Python 3.12 on, caught
\* alike), a number or None is not subscriptable.
SliceTo(data, n) ==
    CASE data.t = "list" ->
           Ok(PyList(SubSeq(data.items, 1, Min(n, Len(data.items)))))
      [] data.t = "str" -> Ok(IF n = 0 THEN PyStr("") ELSE data)
      [] OTHER -> Raise("TypeError")

\* bool(v) of a list comprehension's filter.
Truthy(v) ==
    CASE v.t = "str" -> v.s # ""
      [] v.t = "num" -> v.n # 0
      [] v.t = "list" -> v.items # << >>
      [] v.t = "dict" -> DOMAIN v.d # {}
      [] OTHER -> FALSE

RECURSIVE Pluck(_, _)
\* [item[key] for item in items]: the first failing subscript raises.
Pluck(items, key) ==
    IF items = << >> THEN Ok(<< >>)
    ELSE LET h == Subscript(Head(items), key) IN
         IF h.exc # "none" THEN Raise(h.exc)
         ELSE LET r == Pluck(Tail(items), key) IN
              IF r.exc # "none" THEN Raise(r.exc)
              ELSE Ok(<<h.val>> \o r.val)

\* [item[key] for item in data]
Comprehend(data, key) ==
    LET it == Iterate(data) IN
    IF it.exc # "none" THEN Raise(it.exc) ELSE Pluck(it.val, key)

RECURSIVE KeepTruthy(_)
\* [name for name in all_names if name]
KeepTruthy(names) ==
    IF names = << >> THEN << >>
    ELSE IF Truthy(Head(names))
         THEN <<Head(names)>> \o KeepTruthy(Tail(names))
         ELSE KeepTruthy(Tail(names))

\* except (json.JSONDecodeError, TypeError, KeyError): return []
Caught == {"JSONDecodeError", "TypeError", "KeyError"}
Except(r) == IF r.exc \in Caught THEN Ok(<< >>) ELSE r

\* parse_json_field of tempCodeRunnerFile.py
parse_json_field(cell) ==
    LET data == Loads(cell) IN
    Except(IF data.exc # "none" THEN Raise(data.exc)
           ELSE Comprehend(data.val, "name"))

\* parse_json_field of app.py
app_parse_json_field(cell) ==
    LET data == Loads(cell) IN
    Except(IF data.exc # "none" THEN Raise(data.exc)
           ELSE Comprehend(data.val, "name"))

\* A parse_cast that reads every entry, whatever max_items is.
CastUnwindowed(data, n) ==
    IF data.t \in {"list", "str"} THEN Ok(data) ELSE Raise("TypeError")

\* data[:max_items] of parse_cast
CastWindow(data, n) == SliceTo(data, n)

\* parse_cast(data_str, max_items)
parse_cast(cell, n) ==
    LET data == Loads(cell) IN
    Except(
      IF data.exc # "none" THEN Raise(data.exc)
      ELSE LET w1 == CastWindow(data.val, n) IN
           IF w1.exc # "none" THEN Raise(w1.exc)
           ELSE LET actor_names == Comprehend(w1.val, "name") IN
                IF actor_names.exc # "none" THEN Raise(actor_names.exc)
                ELSE LET character_names == Comprehend(w1.val, "character") IN
                     IF character_names.exc # "none"
                     THEN Raise(character_names.exc)
                     ELSE Ok(KeepTruthy(actor_names.val \o character_names.val)))

(***************************************************************************)
(* The explored cells: JSON documents, their serialization, broken text.   *)
(***************************************************************************)
Objects ==
    { << >>,
      [name |-> PyStr("A")],
      [character |-> PyStr("X")],
      [name |-> PyStr("A"), character |-> PyStr("X")],
      [name |-> PyStr("B"), character |-> PyStr("Y")],
      [name |-> PyStr(""), character |-> PyStr("X")],
      [name |-> PyStr("A"), character |-> PyStr("")] }

Scalars == {PyNum(7), None, PyStr("ab"), PyStr("")}

Elements == {PyDict(d) : d \in Objects} \cup {PyNum(7), None, PyStr("ab")}

SeqsUpTo(S, n) == UNION {[1..k -> S] : k \in 0..n}

Documents ==
    Scalars \cup {PyDict(d) : d \in Objects}
            \cup {PyList(s) : s \in SeqsUpTo(Elements, MaxLen)}

RECURSIVE Dumps(_), DumpItems(_), DumpMembers(_, _)
\* json.dumps: the token sequence of a document.
Dumps(v) ==
    CASE v.t = "none" -> <<TNull>>
      [] v.t = "num" -> <<TNum(LiteralOf(v.n))>>
      [] v.t = "str" -> <<TStr(v.s)>>
      [] v.t = "list" -> <<Punct("[")>> \o DumpItems(v.items) \o <<Punct("]")>>
      [] v.t = "dict" ->
           <<Punct("{")>> \o DumpMembers(v.d, DOMAIN v.d) \o <<Punct("}")>>

DumpItems(items) ==
    IF items = << >> THEN << >>
    ELSE IF Len(items) = 1 THEN Dumps(items[1])
    ELSE Dumps(items[1]) \o <<Punct(",")>> \o DumpItems(Tail(items))

DumpMembers(d, ks) ==
    IF ks = {} THEN << >>
    ELSE LET x == CHOOSE y \in ks : TRUE
             m == <<TStr(x), Punct(":")>> \o Dumps(d[x])
         IN  IF ks = {x} THEN m
             ELSE m \o <<Punct(",")>> \o DumpMembers(d, ks \ {x})

\* Text cut short: never one complete JSON value.
Truncated(toks) == SubSeq(toks, 1, Len(toks) - 1)

\* The cell of a CSV row: a missing value, complete JSON text, or cut text.
CellOf(o) ==
    CASE o.shape = "missing" -> NaN
      [] o.shape = "json" -> Text(Dumps(o.doc))
      [] o.shape = "broken" -> Text(Truncated(Dumps(o.doc)))

Origins ==
    {[shape |-> "missing", doc |-> None]}
        \cup [shape : {"json", "broken"}, doc : Documents]

(***************************************************************************)
(* Cleaning, document composition and point building, one record at a time. *)
(***************************************************************************)
\* numpy scalars of the vote_average column, and Python's float (in tenths).
F64(tenths) == [t |-> "f64", tenths |-> tenths]
I64(n) == [t |-> "i64", n |-> n]
PyFloat(tenths) == [t |-> "float", tenths |-> tenths]
FloatNaN == [t |-> "float", tenths |-> -1]

\* pd.notnull(v)
NotNull(v) == v.t # "nan"

\* float(v)
Float(v) ==
    CASE v.t = "f64" -> PyFloat(v.tenths)
      [] v.t = "i64" -> PyFloat(10 * v.n)
      [] v.t = "float" -> v
      [] v.t = "nan" -> FloatNaN

\* Series.fillna(d), on one cell
Fillna(v, d) == IF NotNull(v) THEN v ELSE d

\* Series + str and Series + Series on object columns: a missing operand
\* makes the sum missing.
StrAdd(a, b) == IF NotNull(a) /\ NotNull(b) THEN PyStr(a.s \o b.s) ELSE NaN

RECURSIVE Join(_, _)
\* sep.join(xs) of a list of strings
Join(sep, xs) ==
    IF xs = << >> THEN ""
    ELSE IF Len(xs) = 1 THEN xs[1].s
    ELSE xs[1].s \o sep \o Join(sep, Tail(xs))

\* lambda x: ' '.join(x)
SpaceJoined(xs) == PyStr(Join(" ", xs))

Dot == PyStr(". ")

\* model.encode(x).tolist(): a function of the text; what it does with a
\* missing value instead of a text depends on the library build, which
\* either raises or encodes it.
Embedding(text) == [model |-> "all-MiniLM-L6-v2", of |-> text]
EncodeOutcomes(text) ==
    IF text.t = "str" THEN {Ok(Embedding(text))}
    ELSE {Raise("TypeError"), Ok(Embedding(text))}

NoPoint == [id |-> -1, vector |-> None, payload |-> << >>]

\* app.py: fillna, parse_json_field on genres and keywords
app_Clean(r) ==
    [title |-> r.title,
     overview |-> Fillna(r.overview, PyStr("")),
     release_date |-> Fillna(r.release_date, PyStr("")),
     genres_list |-> app_parse_json_field(r.genres).val,
     keywords_list |-> app_parse_json_field(r.keywords).val,
     vote_average |-> r.vote_average]

\* app.py: df['search_text']
app_SearchText(c) ==
    StrAdd(StrAdd(StrAdd(StrAdd(StrAdd(StrAdd(
        c.title, Dot),
        c.overview), Dot),
        SpaceJoined(c.genres_list)), Dot),
        SpaceJoined(c.keywords_list))

\* A rating taken over as it is read.
RatingUnchecked(v) == Float(v)

\* app.py: rating = float(v) if pd.notnull(v) else 0.0
app_Rating(v) == IF NotNull(v) THEN Float(v) ELSE PyFloat(0)

\* app.py: PointStruct(id=i, vector=..., payload={...})
app_Point(c, pos, vector) ==
    [id |-> pos,
     vector |-> vector,
     payload |-> [title |-> c.title,
                  description |-> c.overview,
                  genres |-> c.genres_list,
                  rating |-> app_Rating(c.vote_average),
                  release_date |-> c.release_date]]

\* tempCodeRunnerFile.py: fillna, parse_json_field, parse_cast
Clean(r) ==
    [id |-> r.id,
     title_x |-> r.title,
     overview |-> Fillna(r.overview, PyStr("")),
     release_date |-> Fillna(r.release_date, PyStr("")),
     genres_list |-> parse_json_field(r.genres).val,
     keywords_list |-> parse_json_field(r.keywords).val,
     cast_list |-> parse_cast(r.cast, DefaultMaxItems).val,
     vote_average |-> r.vote_average]

\* tempCodeRunnerFile.py: df['search_text'], title and cast repeated
SearchText(c) ==
    StrAdd(StrAdd(StrAdd(StrAdd(StrAdd(StrAdd(StrAdd(StrAdd(StrAdd(
    StrAdd(StrAdd(StrAdd(
        c.title_x, Dot),
        c.title_x), Dot),
        SpaceJoined(c.cast_list)), Dot),
        SpaceJoined(c.cast_list)), Dot),
        c.overview), Dot),
        SpaceJoined(c.genres_list)), Dot),
        SpaceJoined(c.keywords_list))

\* tempCodeRunnerFile.py: rating = float(v) if pd.notnull(v) else 0.0
Rating(v) == IF NotNull(v) THEN Float(v) ELSE PyFloat(0)

\* tempCodeRunnerFile.py: release_date = v if pd.notnull(v) and v else None
ReleaseDate(v) == IF NotNull(v) /\ Truthy(v) THEN v ELSE None

\* int(v) of a numpy integer
PyInt(v) == v.n

\* tempCodeRunnerFile.py: PointStruct(id=int(row['id']), ...)
Point(c, vector) ==
    [id |-> PyInt(c.id),
     vector |-> vector,
     payload |-> [title |-> c.title_x,
                  description |-> c.overview,
                  genres |-> c.genres_list,
                  rating |-> Rating(c.vote_average),
                  release_date |-> ReleaseDate(c.release_date)]]

(***************************************************************************)
(* The explored raw records.                                               *)
(***************************************************************************)
Named(n) == PyDict([name |-> PyStr(n)])
Credit(n, c) == PyDict([name |-> PyStr(n), character |-> PyStr(c)])
Json(v) == Text(Dumps(v))

GenreCells ==
    {NaN, Json(PyList(<< >>)), Json(PyList(<<Named("Sci-Fi")>>)),
     Json(PyList(<<Named("Drama"), Named("Sci-Fi")>>)),
     Text(Truncated(Dumps(PyList(<<Named("Drama")>>))))}
KeywordCells ==
    {NaN, Json(PyList(<< >>)), Json(PyList(<<Named("space")>>))}
CastCells ==
    {NaN, Json(PyList(<<Credit("Sam", "Bell")>>)),
     Json(PyList(<<Credit("Sam", ""), PyDict([name |-> PyStr("Eve")])>>))}

RawRecords ==
    [id : {I64(42)},
     title : {NaN, PyStr("Nova")},
     overview : {NaN, PyStr("A ship drifts")},
     genres : GenreCells,
     keywords : KeywordCells,
     cast : CastCells,
     vote_average : {NaN, F64(65), F64(0), I64(7)},
     release_date : {NaN, PyStr(""), PyStr("2009-12-10")}]

(***************************************************************************)
(* The parts of the state a specification does not use stay idle.           *)
(***************************************************************************)
\* The collection on the server: whether it exists, and its points by id.
NoCollection == [exists |-> FALSE, stored |-> << >>]

IdleScript ==
    /\ pc = "off"
    /\ collection = NoCollection
    /\ source = [rows |-> 0, cycle |-> 1]
    /\ points = << >>
    /\ i = 0
    /\ inflight = << >>
    /\ submitted = << >>
    /\ acked = << >>
    /\ failed = 0
    /\ uploaded = FALSE
    /\ run = 0
    /\ first = [known |-> FALSE, at |-> 0, stored |-> << >>]

IdleApp ==
    /\ client = NoCollection
    /\ session_state = << >>
    /\ widgets = << >>
    /\ running = 0
    /\ line = "off"
    /\ query = ""
    /\ button = FALSE
    /\ csv = << >>
    /\ app_points = << >>
    /\ calls = << >>
    /\ results = {}
    /\ error = FALSE
    /\ acked_by = {}
    /\ created_twice = FALSE

IdleRecord ==
    /\ row = << >>
    /\ variant = "none"
    /\ search_text = None
    /\ point = NoPoint
    /\ fault = FALSE

IdleParse ==
    /\ origin = [shape |-> "missing", doc |-> None]
    /\ data_str = NaN
    /\ max_items = 0
    /\ fn = "none"
    /\ result = Ok(<< >>)

InitRecord ==
    /\ IdleParse
    /\ IdleScript
    /\ IdleApp
    /\ row \in RawRecords
    /\ variant = "none"
    /\ search_text = None
    /\ point = NoPoint
    /\ fault = FALSE

\* app.py, lines 55-89 for one row at ordinal position i
BuildAppPoint ==
    /\ variant = "none"
    /\ row # << >>
    /\ variant' = "app"
    /\ LET c == app_Clean(row) IN
       /\ search_text' = app_SearchText(c)
       /\ \E e \in EncodeOutcomes(app_SearchText(c)) :
            IF e.exc # "none"
            THEN fault' = TRUE /\ point' = NoPoint
            ELSE fault' = FALSE /\ point' = app_Point(c, 0, e.val)
    /\ UNCHANGED <<row, parseVars, scriptVars, appVars>>

\* tempCodeRunnerFile.py, lines 59-103 for one row
BuildPoint ==
    /\ variant = "none"
    /\ row # << >>
    /\ variant' = "production"
    /\ LET c == Clean(row) IN
       /\ search_text' = SearchText(c)
       /\ \E e \in EncodeOutcomes(SearchText(c)) :
            IF e.exc # "none"
            THEN fault' = TRUE /\ point' = NoPoint
            ELSE fault' = FALSE /\ point' = Point(c, e.val)
    /\ UNCHANGED <<row, parseVars, scriptVars, appVars>>

NextRecord == BuildAppPoint \/ BuildPoint

SpecRecord == InitRecord /\ [][NextRecord]_vars

(***************************************************************************)
(* tempCodeRunnerFile.py: recreate the collection, build the points, upload *)
(* them in batches.                                                         *)
(***************************************************************************)
BATCH_SIZE == 100

\* The rows of the merged CSV files.  Row k repeats one of four records;
\* its id runs through 0 .. cycle-1, so a cycle shorter than the file
\* gives several rows the same id.
Template(k) ==
    IF k % 5 = 0 THEN
        [title |-> NaN, overview |-> PyStr("A ship drifts"),
         genres |-> Json(PyList(<<Named("Sci-Fi")>>)),
         keywords |-> Json(PyList(<< >>)),
         cast |-> Json(PyList(<<Credit("Sam", "Bell")>>)),
         vote_average |-> F64(65), release_date |-> PyStr("2009-12-10")]
    ELSE IF k % 3 = 1 THEN
        [title |-> PyStr("Nova"), overview |-> PyStr("A ship drifts"),
         genres |-> Json(PyList(<<Named("Drama"), Named("Sci-Fi")>>)),
         keywords |-> Json(PyList(<<Named("space")>>)),
         cast |-> Json(PyList(<<Credit("Sam", "Bell")>>)),
         vote_average |-> F64(65), release_date |-> PyStr("2009-12-10")]
    ELSE IF k % 3 = 2 THEN
        [title |-> PyStr("Dusk"), overview |-> NaN, genres |-> NaN,
         keywords |-> NaN, cast |-> NaN,
         vote_average |-> NaN, release_date |-> NaN]
    ELSE
        [title |-> PyStr("Eve"), overview |-> PyStr(""),
         genres |-> Text(Truncated(Dumps(PyList(<<Named("Drama")>>)))),
         keywords |-> Json(PyList(<< >>)),
         cast |-> Json(PyList(<<Credit("Sam", ""),
                                PyDict([name |-> PyStr("Eve")])>>)),
         vote_average |-> I64(7), release_date |-> PyStr("")]

RowAt(src, k) ==
    LET tpl == Template(k) IN
    [id |-> I64((k - 1) % src.cycle),
     title |-> tpl.title, overview |-> tpl.overview, genres |-> tpl.genres,
     keywords |-> tpl.keywords, cast |-> tpl.cast,
     vote_average |-> tpl.vote_average, release_date |-> tpl.release_date]

\* pd.read_csv of both files and pd.merge on id
ReadMerged(src) == [k \in 1..src.rows |-> RowAt(src, k)]

RowCounts ==
    {n \in 0..MaxRows :
        n <= 3 \/ n % 25 <= 1 \/ n % BATCH_SIZE = BATCH_SIZE - 1 \/ n = MaxRows}

Sources == [rows : RowCounts, cycle : {7, 150, 1000}]

\* The collection right after its creation.
EmptyCollection == [exists |-> TRUE, stored |-> << >>]
StalePoint(n) ==
    [id |-> n, vector |-> Embedding(PyStr("old")),
     payload |-> [title |-> PyStr("Old"), description |-> PyStr(""),
                  genres |-> << >>, rating |-> PyFloat(10),
                  release_date |-> None]]
PriorCollections ==
    {NoCollection,
     [exists |-> TRUE, stored |-> [n \in {0, 9999} |-> StalePoint(n)]]}

\* A recreate that leaves an existing collection as it is.
create_if_absent(c) == IF c.exists THEN c ELSE EmptyCollection

\* client.recreate_collection: drop, then create
recreate_collection(c) == EmptyCollection

Last(S) == CHOOSE m \in S : \A k \in S : k <= m

\* The store writes the points of a request in order, each over the point
\* that has its id: of several points with one id the last one stays.
StoreAll(stored, batch) ==
    LET ids == {batch[j].id : j \in 1..Len(batch)}
        at(x) == Last({j \in 1..Len(batch) : batch[j].id = x})
    IN  [x \in DOMAIN stored \cup ids |->
            IF x \in ids THEN batch[at(x)] ELSE stored[x]]

\* client.upsert, acknowledged
upsert(c, batch) == [c EXCEPT !.stored = StoreAll(c.stored, batch)]

\* The loop ends a batch one point early.
end_index_short(k, n, size) == Min(k + size - 1, n)

\* end_index = min(i + BATCH_SIZE, len(points))
end_index(k, n, size) == Min(k + size, n)

\* batch_points = points[i:end_index]
batch_points(pts, k, size) == SubSeq(pts, k + 1, end_index(k, Len(pts), size))

RECURSIVE upload_loop(_, _, _, _)
\* for i in range(0, len(points), BATCH_SIZE): the batches handed to
\* client.upsert when every one is acknowledged, for a batch size.
upload_loop(pts, k, size, sent) ==
    IF k < Len(pts)
    THEN upload_loop(pts, k + size, size,
                     Append(sent, batch_points(pts, k, size)))
    ELSE sent

\* An upload that does not wait for the acknowledgement.
no_wait == FALSE

\* client.upsert(..., wait=True)
wait == TRUE

\* An upload loop that goes on with the same batch after an error.
RetryAfterUpsertError == "upload"

\* No handler encloses client.upsert: its exception ends the script.
AfterUpsertError == "aborted"

\* The points of every row, when every document encodes.
BuildPoints(df) ==
    [k \in 1..Len(df) |->
        LET c == Clean(df[k])
        IN  Point(c, Embedding(SearchText(c)))]

\* Whether model.encode is given a missing value for some row.
SomeMissingText(df) ==
    \E k \in 1..Len(df) : SearchText(Clean(df[k])).t # "str"

InitScript ==
    /\ IdleParse
    /\ IdleRecord
    /\ IdleApp
    /\ pc = "start"
    /\ collection \in PriorCollections
    /\ source \in Sources
    /\ points = << >>
    /\ i = 0
    /\ inflight = << >>
    /\ submitted = << >>
    /\ acked = << >>
    /\ failed = 0
    /\ uploaded = FALSE
    /\ run = 1
    /\ first = [known |-> FALSE, at |-> 0, stored |-> << >>]

\* lines 41-45
Recreate ==
    /\ pc = "start"
    /\ collection' = recreate_collection(collection)
    /\ pc' = "load"
    /\ UNCHANGED <<source, points, i, inflight, submitted, acked, failed,
                   uploaded, run, first, parseVars, recordVars, appVars>>

\* lines 41-44, the server refusing or unreachable
RecreateFails ==
    /\ pc = "start"
    /\ pc' = "aborted"
    /\ UNCHANGED <<collection, source, points, i, inflight, submitted, acked,
                   failed, uploaded, run, first, parseVars, recordVars, appVars>>

\* lines 51-103: read, merge, clean, parse, compose, encode, build
Prepare ==
    /\ pc = "load"
    /\ LET df == ReadMerged(source) IN
       \E encodes \in IF SomeMissingText(df) THEN BOOLEAN ELSE {TRUE} :
          IF encodes
          THEN /\ points' = BuildPoints(df)
               /\ pc' = "upload"
          ELSE /\ points' = << >>
               /\ pc' = "aborted"
    /\ i' = 0
    /\ UNCHANGED <<collection, source, inflight, submitted, acked, failed,
                   uploaded, run, first, parseVars, recordVars, appVars>>

\* lines 109-117: the next batch is handed to client.upsert
Submit ==
    /\ pc = "upload"
    /\ i < Len(points)
    /\ submitted' = Append(submitted, batch_points(points, i, BATCH_SIZE))
    /\ inflight' = Append(inflight, Len(submitted) + 1)
    /\ IF wait
       THEN pc' = "wait" /\ i' = i
       ELSE pc' = "upload" /\ i' = i + BATCH_SIZE
    /\ UNCHANGED <<collection, source, points, acked, failed, uploaded, run,
                   first, parseVars, recordVars, appVars>>

\* lines 113-119: the server has written the oldest request
Acknowledge ==
    /\ inflight # << >>
    /\ collection' = upsert(collection, submitted[Head(inflight)])
    /\ acked' = Append(acked, Head(inflight))
    /\ inflight' = Tail(inflight)
    /\ IF pc = "wait"
       THEN pc' = "upload" /\ i' = i + BATCH_SIZE
       ELSE UNCHANGED <<pc, i>>
    /\ UNCHANGED <<source, points, submitted, failed, uploaded, run, first,
                   parseVars, recordVars, appVars>>

\* lines 113-117: client.upsert raises, nothing of the request is written
UpsertFails ==
    /\ pc = "wait"
    /\ inflight # << >>
    /\ failed = 0
    /\ failed' = Head(inflight)
    /\ inflight' = Tail(inflight)
    /\ pc' = AfterUpsertError
    /\ UNCHANGED <<collection, source, points, i, submitted, acked, uploaded,
                   run, first, parseVars, recordVars, appVars>>

\* line 121, after the loop
Finish ==
    /\ pc = "upload"
    /\ i >= Len(points)
    /\ pc' = "done"
    /\ uploaded' = TRUE
    /\ first' = IF first.known THEN first
                ELSE [known |-> TRUE, at |-> run, stored |-> collection.stored]
    /\ UNCHANGED <<collection, source, points, i, inflight, submitted, acked,
                   failed, run, parseVars, recordVars, appVars>>

\* The script is started again on the same files.
RunAgain ==
    /\ pc \in {"done", "aborted"}
    /\ inflight = << >>
    /\ run < MaxRuns
    /\ run' = run + 1
    /\ pc' = "start"
    /\ points' = << >>
    /\ i' = 0
    /\ submitted' = << >>
    /\ acked' = << >>
    /\ failed' = 0
    /\ uploaded' = FALSE
    /\ UNCHANGED <<collection, source, inflight, first, parseVars, recordVars, appVars>>

NextScript ==
    \/ Recreate
    \/ RecreateFails
    \/ Prepare
    \/ Submit
    \/ Acknowledge
    \/ UpsertFails
    \/ Finish
    \/ RunAgain

SpecScript == InitScript /\ [][NextScript]_vars

(***************************************************************************)
(* app.py: every interaction of a session runs the script from the top;    *)
(* the model and the in-memory client are cached for the whole process,    *)
(* st.session_state belongs to the session.                                *)
(***************************************************************************)
Sessions == 1..MaxSessions

\* limit=10 of client.search
limit == 10

\* A call to the model or to the client, with the limit a search asks for.
Call(op, n) == [op |-> op, n |-> n]

AppRecords ==
    {[id |-> I64(42), title |-> PyStr("Nova"),
      overview |-> PyStr("A ship drifts"),
      genres |-> Json(PyList(<<Named("Sci-Fi")>>)),
      keywords |-> Json(PyList(<< >>)), cast |-> NaN,
      vote_average |-> NaN, release_date |-> NaN],
     [id |-> I64(7), title |-> PyStr("Dusk"), overview |-> NaN,
      genres |-> NaN, keywords |-> Json(PyList(<<Named("space")>>)),
      cast |-> NaN, vote_average |-> F64(65),
      release_date |-> PyStr("2009-12-10")],
     [id |-> I64(9), title |-> NaN, overview |-> PyStr(""),
      genres |-> Json(PyList(<< >>)), keywords |-> NaN, cast |-> NaN,
      vote_average |-> I64(7), release_date |-> PyStr("")]}

\* pd.read_csv("tmdb_5000_movies.csv")
AppFiles == SeqsUpTo(AppRecords, MaxAppRows)

\* A guard that never asks for the ingestion.
always_uploaded(state) == FALSE

\* 'data_uploaded' not in st.session_state
not_uploaded(state) == "data_uploaded" \notin state

\* not client.collection_exists(collection_name)
collection_absent(c) == ~c.exists

\* client.create_collection
create_collection(c) == EmptyCollection

\* for i, row in df.iterrows(): the point of each row, its id the row's
\* position from 0
app_BuildPoints(df) ==
    [k \in 1..Len(df) |->
        LET c == app_Clean(df[k])
        IN  app_Point(c, k - 1, Embedding(app_SearchText(c)))]

app_SomeMissingText(df) ==
    \E k \in 1..Len(df) : app_SearchText(app_Clean(df[k])).t # "str"

\* A search on every click, whatever the query.
on_click(b, q) == b

\* st.button("Find Recommendations") and query
button_and_query(b, q) == b /\ q # ""

InitApp ==
    /\ IdleParse
    /\ IdleRecord
    /\ IdleScript
    /\ client = NoCollection
    /\ session_state = [s \in Sessions |-> {}]
    /\ widgets = [s \in Sessions |-> FALSE]
    /\ running = 0
    /\ line = "idle"
    /\ query = ""
    /\ button = FALSE
    /\ csv \in AppFiles
    /\ app_points = << >>
    /\ calls = << >>
    /\ results = {}
    /\ error = FALSE
    /\ acked_by = {}
    /\ created_twice = FALSE

\* A session's page load, rerun or widget interaction starts the script.
\* The text input and the button exist once a run of the session has
\* reached line 100; the button is TRUE in the run its click starts.
StartRun ==
    /\ line = "idle"
    /\ \E s \in Sessions, q \in {"", "space and survival"}, b \in BOOLEAN :
          /\ (b \/ q # "") => widgets[s]
          /\ running' = s
          /\ query' = q
          /\ button' = b
    /\ line' = "guard"
    /\ calls' = << >>
    /\ results' = {}
    /\ error' = FALSE
    /\ app_points' = << >>
    /\ UNCHANGED <<client, session_state, widgets, csv, acked_by,
                   created_twice, parseVars, recordVars, scriptVars>>

\* line 41
Guard ==
    /\ line = "guard"
    /\ line' = IF not_uploaded(session_state[running]) THEN "collection"
             ELSE "query"
    /\ UNCHANGED <<client, session_state, widgets, running, query, button,
                   csv, app_points, calls, results, error, acked_by,
                   created_twice, parseVars, recordVars, scriptVars>>

\* lines 44-49
EnsureCollection ==
    /\ line = "collection"
    /\ IF collection_absent(client)
       THEN /\ calls' = calls \o <<Call("collection_exists", 0),
                                   Call("create_collection", 0)>>
            /\ created_twice' = (created_twice \/ client.exists)
            /\ client' = create_collection(client)
       ELSE /\ calls' = Append(calls, Call("collection_exists", 0))
            /\ UNCHANGED <<client, created_twice>>
    /\ line' = "build"
    /\ UNCHANGED <<session_state, widgets, running, query, button, csv,
                   app_points, results, error, acked_by, parseVars,
                   recordVars, scriptVars>>

\* lines 51-89
BuildAll ==
    /\ line = "build"
    /\ \E encodes \in IF app_SomeMissingText(csv) THEN BOOLEAN ELSE {TRUE} :
          IF encodes
          THEN /\ app_points' = app_BuildPoints(csv)
               /\ line' = "upsert"
               /\ error' = FALSE
          ELSE /\ app_points' = << >>
               /\ line' = "idle"
               /\ error' = TRUE
    /\ calls' = Append(calls, Call("encode_documents", 0))
    /\ UNCHANGED <<client, session_state, widgets, running, query, button,
                   csv, results, acked_by, created_twice, parseVars,
                   recordVars, scriptVars>>

\* lines 91-95, acknowledged
UpsertAll ==
    /\ line = "upsert"
    /\ client.exists
    /\ client' = upsert(client, app_points)
    /\ acked_by' = acked_by \cup {running}
    /\ calls' = Append(calls, Call("upsert", 0))
    /\ line' = "flag"
    /\ UNCHANGED <<session_state, widgets, running, query, button, csv,
                   app_points, results, error, created_twice, parseVars,
                   recordVars, scriptVars>>

\* lines 91-95, client.upsert raising
UpsertAllFails ==
    /\ line = "upsert"
    /\ calls' = Append(calls, Call("upsert", 0))
    /\ line' = "idle"
    /\ error' = TRUE
    /\ UNCHANGED <<client, session_state, widgets, running, query, button,
                   csv, app_points, results, acked_by, created_twice,
                   parseVars, recordVars, scriptVars>>

\* lines 97-98
SetUploaded ==
    /\ line = "flag"
    /\ session_state' = [session_state EXCEPT
                            ![running] = @ \cup {"data_uploaded"}]
    /\ line' = "query"
    /\ UNCHANGED <<client, widgets, running, query, button, csv, app_points,
                   calls, results, error, acked_by, created_twice, parseVars,
                   recordVars, scriptVars>>

\* lines 100-102
Widgets ==
    /\ line = "query"
    /\ widgets' = [widgets EXCEPT ![running] = TRUE]
    /\ line' = IF button_and_query(button, query) THEN "search" ELSE "idle"
    /\ UNCHANGED <<client, session_state, running, query, button, csv,
                   app_points, calls, results, error, acked_by,
                   created_twice, parseVars, recordVars, scriptVars>>

\* lines 103-126
Search ==
    /\ line = "search"
    /\ calls' = calls \o <<Call("encode_query", 0), Call("search", limit)>>
    /\ IF client.exists
       THEN /\ \E found \in SUBSET DOMAIN client.stored :
                 /\ Cardinality(found) =
                       Min(limit, Cardinality(DOMAIN client.stored))
                 /\ results' = found
            /\ error' = FALSE
       ELSE results' = {} /\ error' = TRUE
    /\ line' = "idle"
    /\ UNCHANGED <<client, session_state, widgets, running, query, button,
                   csv, app_points, acked_by, created_twice, parseVars,
                   recordVars, scriptVars>>

\* The user stops the run, or a new interaction cuts it short.
StopRun ==
    /\ line \notin {"idle", "off"}
    /\ line' = "idle"
    /\ UNCHANGED <<client, session_state, widgets, running, query, button,
                   csv, app_points, calls, results, error, acked_by,
                   created_twice, parseVars, recordVars, scriptVars>>

\* The server process starts anew: the in-memory collection and every
\* session are gone.
Restart ==
    /\ line = "idle"
    /\ running # 0
    /\ client' = NoCollection
    /\ session_state' = [s \in Sessions |-> {}]
    /\ widgets' = [s \in Sessions |-> FALSE]
    /\ running' = 0
    /\ query' = ""
    /\ button' = FALSE
    /\ app_points' = << >>
    /\ calls' = << >>
    /\ results' = {}
    /\ error' = FALSE
    /\ acked_by' = {}
    /\ UNCHANGED <<line, csv, created_twice, parseVars, recordVars, scriptVars>>

NextApp ==
    \/ StartRun
    \/ Guard
    \/ EnsureCollection
    \/ BuildAll
    \/ UpsertAll
    \/ UpsertAllFails
    \/ SetUploaded
    \/ Widgets
    \/ Search
    \/ StopRun
    \/ Restart

SpecApp == InitApp /\ [][NextApp]_vars

(***************************************************************************)
(* C9, C10.  The query handling and the ingestion guard of app.py.         *)
(***************************************************************************)
Called(op) == \E k \in 1..Len(calls) : calls[k].op = op

C10_SearchOnlyWhenReady ==
    /\ (line = "search" \/ Called("search")) =>
          /\ client.exists
          /\ DOMAIN client.stored = {k - 1 : k \in 1..Len(csv)}
          /\ "data_uploaded" \in session_state[running]
          /\ running \in acked_by
    /\ ~created_twice

\* A session has searched after both sessions have ingested, the later one
\* into the collection the earlier one created.
C10_Witness ==
    /\ Called("search")
    /\ results # {}
    /\ acked_by = Sessions
    /\ running = MaxSessions

(***************************************************************************)
(* C1, C5, C6, C7.  The batched upload.                                    *)
(***************************************************************************)
CeilDiv(n, d) == (n + d - 1) \div d

RECURSIVE Flatten(_)
Flatten(batches) ==
    IF batches = << >> THEN << >>
    ELSE Head(batches) \o Flatten(Tail(batches))

Sizes(batches) == [k \in 1..Len(batches) |-> Len(batches[k])]

\* Batches of 1..size points each, ceil(N/size) of them, that put together
\* in order are the points.
Partitions(batches, pts, size) ==
    /\ Len(batches) = CeilDiv(Len(pts), size)
    /\ \A k \in 1..Len(batches) :
          Len(batches[k]) >= 1 /\ Len(batches[k]) <= size
    /\ Flatten(batches) = pts

\* C1: the upload loop submits ceil(N/B) batches for B = BATCH_SIZE (and,
\* as a function of the batch size, for the sizes 1..MaxBatch on the first
\* MaxChunked points), each of 1..B points; the batches put
\* together in submission order are the points, so each point is submitted
\* once and in its place.  250 points go out as 100, 100, 50; no point, no
\* submission.
C1_Batching ==
    /\ \A k \in 1..Len(submitted) :
          Len(submitted[k]) >= 1 /\ Len(submitted[k]) <= BATCH_SIZE
    /\ Flatten(submitted) = SubSeq(points, 1, Len(Flatten(submitted)))
    /\ pc = "done" =>
          /\ Partitions(submitted, points, BATCH_SIZE)
          /\ Len(points) = 250 => Sizes(submitted) = <<100, 100, 50>>
          /\ Len(points) = 0 => submitted = << >>
          /\ \A size \in 1..MaxBatch :
               \A n \in 0..Min(MaxChunked, Len(points)) :
                  LET pts == SubSeq(points, 1, n)
                  IN  Partitions(upload_loop(pts, 0, size, << >>), pts, size)

\* A run has uploaded more than two full batches and a shorter last one.
C1_Witness ==
    /\ pc = "done"
    /\ Len(submitted) = 3
    /\ Len(submitted[3]) < BATCH_SIZE
    /\ Len(points) > 2 * BATCH_SIZE

\* What a sequence of points written in order leaves stored: for each id
\* the last point that has it.
LastWritten(pts) ==
    [x \in {pts[k].id : k \in 1..Len(pts)} |->
        pts[Last({k \in 1..Len(pts) : pts[k].id = x})]]

RecordIds == {PyInt(RowAt(source, k).id) : k \in 1..source.rows}
LastRowOf(x) == Last({k \in 1..source.rows : PyInt(RowAt(source, k).id) = x})

\* C5: whatever the collection held before, after every completed run of
\* the production ingestion on the same files the collection holds exactly
\* the records' ids, one point per distinct id, each the point of the last
\* row that has the id; a later completed run leaves the ids and payloads
\* of the first completed run.
C5_Idempotent ==
    pc = "done" =>
        /\ DOMAIN collection.stored = RecordIds
        /\ Cardinality(DOMAIN collection.stored) = Cardinality(RecordIds)
        /\ \A x \in RecordIds :
              LET c == Clean(RowAt(source, LastRowOf(x)))
              IN  /\ collection.stored[x].id = x
                  /\ collection.stored[x].payload =
                        Point(c, Embedding(SearchText(c))).payload
        /\ first.known
        /\ collection.stored = first.stored

\* A second run has completed after a completed one, on files in which rows
\* share ids, over a collection that held other points before.
C5_Witness ==
    /\ pc = "done"
    /\ first.known
    /\ first.at < run
    /\ Cardinality(RecordIds) < source.rows
    /\ source.rows > BATCH_SIZE

\* C6: when the upsert of batch k fails the run is over: no later batch is
\* submitted, batch k is not submitted again, the success message is not
\* printed, and the collection holds what the acknowledged batches 1..k-1
\* wrote, every one of their points under its id.
C6_AbortOnFailure ==
    failed # 0 =>
        /\ pc = "aborted"
        /\ Len(submitted) = failed
        /\ inflight = << >>
        /\ ~uploaded
        /\ acked = [k \in 1..failed - 1 |-> k]
        /\ LET before == Flatten(SubSeq(submitted, 1, failed - 1))
           IN  /\ \A k \in 1..Len(before) :
                     before[k].id \in DOMAIN collection.stored
               /\ collection.stored = LastWritten(before)

\* The third batch has failed after two acknowledged ones.
C6_Witness ==
    /\ failed = 3
    /\ pc = "aborted"
    /\ Len(acked) = 2
    /\ Cardinality(DOMAIN collection.stored) > BATCH_SIZE

\* C7: at most one upsert is in flight; batch k+1 is submitted only after
\* batch k is acknowledged; the acknowledgements come in batch order.
C7_Sequential ==
    /\ Len(inflight) <= 1
    /\ acked = [k \in 1..Len(acked) |-> k]
    /\ Len(submitted) <= Len(acked) + 1
    /\ inflight # << >> => inflight = <<Len(acked) + 1>> /\ pc = "wait"

\* The third batch is in flight, the first two acknowledged.
C7_Witness ==
    /\ inflight = <<3>>
    /\ acked = <<1, 2>>

(***************************************************************************)
(* C2, C4, C8.  What a built point and its search document hold.           *)
(***************************************************************************)
Built == variant # "none" /\ ~fault
NoDate(v) == v = NaN \/ v = PyStr("")

\* C2 as stated: in both variants the payload's release_date is None when
\* the record's release_date is missing or the empty string, and the
\* record's own string otherwise.
C2_AsStated ==
    Built =>
        point.payload.release_date =
            IF NoDate(row.release_date) THEN None ELSE row.release_date

\* The production variant alone stores None for a missing or empty date.
C2_ProductionOnly ==
    (Built /\ variant = "production") =>
        point.payload.release_date =
            IF NoDate(row.release_date) THEN None ELSE row.release_date

TextOrEmpty(v) == IF v = NaN THEN "" ELSE v.s
NamesText(cell) == Join(" ", parse_json_field(cell).val)
CastText(cell) == Join(" ", parse_cast(cell, DefaultMaxItems).val)

\* C4 as stated: for every record the search document is a string, built
\* without a fault, each missing text field counting as the empty string,
\* joined with ". " in the variant's order (demo: title, overview, genres,
\* keywords; boosted: title, title, cast, cast, overview, genres, keywords).
C4_AsStated ==
    /\ variant # "none" => ~fault /\ search_text.t = "str"
    /\ variant = "app" =>
         search_text =
           PyStr(TextOrEmpty(row.title) \o ". " \o TextOrEmpty(row.overview)
                 \o ". " \o NamesText(row.genres)
                 \o ". " \o NamesText(row.keywords))
    /\ variant = "production" =>
         search_text =
           PyStr(TextOrEmpty(row.title) \o ". " \o TextOrEmpty(row.title)
                 \o ". " \o CastText(row.cast) \o ". " \o CastText(row.cast)
                 \o ". " \o TextOrEmpty(row.overview)
                 \o ". " \o NamesText(row.genres)
                 \o ". " \o NamesText(row.keywords))

\* The worked example of the document composer holds of the demo variant.
C4_Example ==
    (/\ variant = "app"
     /\ row.title = PyStr("Nova")
     /\ row.overview = PyStr("A ship drifts")
     /\ row.genres = Json(PyList(<<Named("Sci-Fi")>>))
     /\ row.keywords = Json(PyList(<< >>)))
        => search_text = PyStr("Nova. A ship drifts. Sci-Fi. ")

\* C8: in both variants the payload's rating is a float, 0.0 when the
\* record's vote_average is missing and the vote_average as a float
\* otherwise; it is never a missing-value marker.
C8_Rating ==
    Built =>
        /\ point.payload.rating.t = "float"
        /\ point.payload.rating # FloatNaN
        /\ point.payload.rating =
             CASE row.vote_average = NaN -> PyFloat(0)
               [] row.vote_average.t = "i64" -> PyFloat(10 * row.vote_average.n)
               [] OTHER -> PyFloat(row.vote_average.tenths)

\* A record without a vote_average has been built into a point rated 0.0.
C8_Witness ==
    /\ Built
    /\ row.vote_average = NaN
    /\ point.payload.rating = PyFloat(0)

(***************************************************************************)
(* Specification of the normalizer: one helper applied to one cell.        *)
(***************************************************************************)
InitParse ==
    /\ origin \in Origins
    /\ data_str = CellOf(origin)
    /\ max_items \in 0..MaxItems
    /\ fn = "none"
    /\ result = Ok(<< >>)
    /\ IdleRecord
    /\ IdleScript
    /\ IdleApp

CallParseJsonField ==
    /\ fn = "none"
    /\ fn' = "parse_json_field"
    /\ result' = parse_json_field(data_str)
    /\ UNCHANGED <<data_str, max_items, origin, recordVars, scriptVars, appVars>>

CallAppParseJsonField ==
    /\ fn = "none"
    /\ fn' = "app_parse_json_field"
    /\ result' = app_parse_json_field(data_str)
    /\ UNCHANGED <<data_str, max_items, origin, recordVars, scriptVars, appVars>>

CallParseCast ==
    /\ fn = "none"
    /\ fn' = "parse_cast"
    /\ result' = parse_cast(data_str, max_items)
    /\ UNCHANGED <<data_str, max_items, origin, recordVars, scriptVars, appVars>>

NextParse == CallParseJsonField \/ CallAppParseJsonField \/ CallParseCast

SpecParse == InitParse /\ [][NextParse]_vars

(***************************************************************************)
(* C3.  The normalizer's fallback.                                         *)
(***************************************************************************)
IsList(o) == o.shape = "json" /\ o.doc.t = "list"
HasKeys(e, ks) == e.t = "dict" /\ ks \subseteq DOMAIN e.d
AllHaveKeys(items, ks) == \A j \in 1..Len(items) : HasKeys(items[j], ks)
ValuesOf(items, key) == [j \in 1..Len(items) |-> items[j].d[key]]
NonEmpty(v) == v # PyStr("")
FirstEntries(items, n) == [j \in 1..Min(n, Len(items)) |-> items[j]]
CastKeys == {"name", "character"}
IsParseJsonField == fn \in {"parse_json_field", "app_parse_json_field"}

\* What is stated of parse_json_field: no exception; the 'name' values in
\* source order, duplicates kept, for a list of objects that all bear 'name';
\* the empty list for every other input.
JsonFieldContract ==
    IsParseJsonField =>
        /\ result.exc = "none"
        /\ result.val =
              IF IsList(origin) /\ AllHaveKeys(origin.doc.items, {"name"})
              THEN ValuesOf(origin.doc.items, "name")
              ELSE << >>

\* C3 as stated: parse_json_field and parse_cast raise nothing and return
\* the empty list for a non-string, for text that is not JSON, for JSON that
\* is not a list, and for a list in which some element is not an object or
\* lacks 'name' / 'character'; for a well-formed list parse_cast returns the
\* names of the first max_items entries, then their characters, without the
\* empty strings.
C3_AsStated ==
    /\ JsonFieldContract
    /\ fn = "parse_cast" =>
          /\ result.exc = "none"
          /\ result.val =
                IF IsList(origin) /\ AllHaveKeys(origin.doc.items, CastKeys)
                THEN LET w == FirstEntries(origin.doc.items, max_items)
                     IN  SelectSeq(ValuesOf(w, "name") \o ValuesOf(w, "character"),
                                   NonEmpty)
                ELSE << >>

\* C3 amended: as stated for parse_json_field; parse_cast looks only at the
\* first max_items entries, so it returns the empty list when the input is
\* not a JSON list or when one of those first entries is not an object or
\* lacks 'name' / 'character', and otherwise the names of those entries
\* followed by their characters without the empty strings, whatever the
\* entries after them are.
C3_Normalizer ==
    /\ JsonFieldContract
    /\ fn = "parse_cast" =>
          /\ result.exc = "none"
          /\ result.val =
                IF IsList(origin)
                   /\ AllHaveKeys(FirstEntries(origin.doc.items, max_items),
                                  CastKeys)
                THEN LET w == FirstEntries(origin.doc.items, max_items)
                     IN  SelectSeq(ValuesOf(w, "name") \o ValuesOf(w, "character"),
                                   NonEmpty)
                ELSE << >>

\* parse_cast has returned names although an entry after the first
\* max_items ones lacks a key.
C3_Witness ==
    /\ fn = "parse_cast"
    /\ IsList(origin)
    /\ Len(origin.doc.items) > max_items
    /\ ~AllHaveKeys(origin.doc.items, CastKeys)
    /\ result.val # << >>

====
